---------------------------- MODULE Spec2Model ----------------------------
(***************************************************************************)
(* A model of StringPool.h: the bump-pointer allocator                     *)
(* StringPool::Allocator and the handle class StringPool::String.          *)
(*                                                                         *)
(* Memory is modelled at the granularity the code works at.  A pointer is  *)
(* a pair (block, byte offset inside the block); a block obtained from     *)
(* malloc is a ChunkHeader followed by wchar_t slots.  Every size is       *)
(* computed with the arithmetic of the source.  The two configuration      *)
(* constants kMinChunkSizeInBytes and kMaxStringLength are scaled down so  *)
(* that whole chunks can be enumerated; the scaling keeps what the source  *)
(* values have: the minimum chunk is a whole number of wchar_t slots, and  *)
(* it holds fewer slots than kMaxStringLength                              *)
(* ((600000 - 16) / 4 < 1024 * 1024).                                      *)
(***************************************************************************)
EXTENDS Integers, Sequences, FiniteSets, TLC

(***************************************************************************)
(* Program constants                                                       *)
(***************************************************************************)
\* sizeof(wchar_t), in bytes (LP64 build).
SizeofWchar == 4
\* sizeof(ChunkHeader): size_t SizeInBytes, wchar_t Chars[1], padded.
SizeofChunkHeader == 16
\* enum kMinChunkSizeInBytes (600000 in the source; here header + 2 slots).
kMinChunkSizeInBytes == 24
\* enum kMaxStringLength (1024 * 1024 in the source).
kMaxStringLength == 3
\* L'\0'
NUL == 0

(***************************************************************************)
(* Bounds of the model                                                     *)
(***************************************************************************)
\* Most handles kept between two calls of Clear.
MaxAllocs == 3
\* Most handles kept while the caller's String variables are exercised.
MaxHeld == 2
\* Blocks the memory provider can hand out in one run.
MaxBlocks == 3
\* Most blocks lost in one run to a refusal of storage for the vector.
MaxLost == 1
\* Longest source sequence offered to AllocString: one past the ceiling.
MaxLen == kMaxStringLength + 1
\* Characters of the source sequences.
Chars == {1, 3}
\* What a slot of a fresh malloc block holds before it is written.
Uninit == NUL - 1
\* The String variables of the caller.
StrVars == {1, 2}

RECURSIVE SeqsUpTo(_)
SeqsUpTo(n) ==
    IF n = 0 THEN {<<>>}
    ELSE LET shorter == SeqsUpTo(n - 1)
         IN  shorter \cup {Append(s, c) : s \in {t \in shorter : Len(t) = n - 1}, c \in Chars}

Inputs == SeqsUpTo(MaxLen)

\* The sources offered where only the length matters to the allocator: one
\* of each length.
Sources == {[i \in 1..n |-> IF i % 2 = 1 THEN 1 ELSE 3] : n \in 0..MaxLen}

(***************************************************************************)
(* Pointers                                                                *)
(***************************************************************************)
Null == [blk |-> 0, off |-> 0]

\* wchar_t* + n
PtrAdd(p, n) == [blk |-> p.blk, off |-> p.off + n * SizeofWchar]

\* p <= q on addresses; blocks are laid out in the order of their numbers.
PtrLe(p, q) == IF p.blk = q.blk THEN p.off <= q.off ELSE p.blk < q.blk

\* The index in Chars of the slot a wchar_t* points at.
SlotOf(p) == ((p.off - SizeofChunkHeader) \div SizeofWchar) + 1


(***************************************************************************)
(* Memory                                                                  *)
(***************************************************************************)
\* Number of whole wchar_t slots after the header of a block of cb bytes.
SlotsIn(cb) == IF cb < SizeofChunkHeader THEN 0
               ELSE (cb - SizeofChunkHeader) \div SizeofWchar

\* malloc(cbSize): a fresh block, nothing in it initialised.
FreshBlock(cb) == [size |-> cb, SizeInBytes |-> Uninit,
                   Chars |-> [i \in 1..SlotsIn(cb) |-> Uninit]]

\* TRUE when p points at a wchar_t slot of a live block of hp.
InBlock(hp, p) ==
    /\ p.blk \in DOMAIN hp
    /\ p.off >= SizeofChunkHeader
    /\ (p.off - SizeofChunkHeader) % SizeofWchar = 0
    /\ SlotOf(p) \in 1..Len(hp[p.blk].Chars)

\* What stands for the wchar_t a read of freed memory yields: the program
\* does not determine it (stale characters, data the caller put there
\* since, bookkeeping of malloc), and the model keeps no number for it.
Garbage == "unspecified"

\* The largest absolute value of a result of wmemcmp that is enumerated.
MaxMagnitude == 2

\* The absolute values a non-zero result of wmemcmp may have: the C standard
\* fixes its sign only. 1 is what the libraries give that return -1 or +1;
\* a library that returns the difference of the elements gives any positive
\* int, enumerated here up to MaxMagnitude.
Magnitudes == 1..MaxMagnitude

\* How a step ended that ran to its end, with the value it gave.
Ok(v) == [outcome |-> "ok", value |-> v]

\* How a step ended that the system stopped on an invalid access.
Fault == [outcome |-> "SIGSEGV", value |-> NUL]

\* How a step ended that threw std::bad_alloc out of std::wstring.
BadAlloc == [outcome |-> "std::bad_alloc", value |-> NUL]

\* The characters a std::wstring holds without asking operator new for
\* storage (libstdc++: _S_local_capacity = 15 / sizeof(wchar_t)).
LocalCapacity == 15 \div SizeofWchar

\* What the build does where the program does not determine it is an input
\* ub of every operator that reads memory.  A read outside the live blocks
\* (through a handle kept after Clear() or ~Allocator()) is undefined:
\* ub.mapped are the addresses of freed memory that can still be read, a
\* read of any other stops the process; ub.rel[k] is how wmemcmp finds the
\* k-th pair it compares when one of the two is such a value, less (-1),
\* equal (0) or greater (1); ub.magnitude is the absolute value of a
\* non-zero result of wmemcmp; ub.extent is the number of elements wmemcmp
\* reads of each array even when an earlier pair differs (a library that
\* compares element by element stops at the pair that differs, one that
\* compares block by block reads to the end of the block).  What the
\* program leaves to its environment is in ub too: ub.stores tells whether
\* operator new provides the storage a std::wstring asks for.
\* Segv: no freed memory can be read, wmemcmp stops at the first pair that
\* differs and returns -1, 0 or +1, and operator new provides.
Segv == [mapped |-> {}, rel |-> <<>>, magnitude |-> 1, extent |-> 0, stores |-> TRUE]

\* As Segv, with a library whose wmemcmp returns results of magnitude m.
Library(m) == [Segv EXCEPT !.magnitude = m]

\* Every behaviour of the undefined reads of the addresses ps by a step
\* that compares nothing, and of operator new.
UndefinedReads(ps) ==
    {[Segv EXCEPT !.mapped = S, !.stores = g] : S \in SUBSET ps, g \in BOOLEAN}

\* *p
ReadAt(hp, p, ub) ==
    IF InBlock(hp, p) THEN Ok(hp[p.blk].Chars[SlotOf(p)])
    ELSE IF p \in ub.mapped THEN Ok(Garbage)
    ELSE Fault

\* *p = c
WriteAt(hp, p, c) ==
    IF InBlock(hp, p) THEN [hp EXCEPT ![p.blk].Chars[SlotOf(p)] = c] ELSE hp

\* wmemcpy(dst, src, n) where the source is the caller's sequence s.
RECURSIVE Wmemcpy(_, _, _, _)
Wmemcpy(hp, dst, s, n) ==
    IF n = 0 THEN hp
    ELSE WriteAt(Wmemcpy(hp, dst, s, n - 1), PtrAdd(dst, n - 1), s[n])

\* The n characters at p, p + 1, ..., read in this order.
ReadChars(hp, p, n, ub) ==
    LET at(i) == ReadAt(hp, PtrAdd(p, i), ub)
    IN  IF \E i \in 0..(n - 1) : at(i).outcome # "ok" THEN Fault
        ELSE Ok([i \in 1..n |-> at(i - 1).value])

\* wmemcmp(p, q, n): the pairs are compared in order, the first that
\* differs decides the sign and the library the magnitude; 0 when none
\* differs.  The elements up to that pair are read, and those after it as
\* far as the library reads ahead (ub.extent), never more than n; a read of
\* an address that is not mapped stops the process.  How a pair with a
\* value read from freed memory compares is up to the build, unless both
\* are the same address.
Wmemcmp(hp, p, q, n, ub) ==
    LET l == [k \in 1..n |-> ReadAt(hp, PtrAdd(p, k - 1), ub)]
        r == [k \in 1..n |-> ReadAt(hp, PtrAdd(q, k - 1), ub)]
        Readable(k) == l[k].outcome = "ok" /\ r[k].outcome = "ok"
        Known(k) == InBlock(hp, PtrAdd(p, k - 1)) /\ InBlock(hp, PtrAdd(q, k - 1))
        Rel(k) == IF Known(k)
                  THEN IF l[k].value < r[k].value THEN -1
                       ELSE IF l[k].value > r[k].value THEN 1 ELSE 0
                  ELSE IF PtrAdd(p, k - 1) = PtrAdd(q, k - 1) THEN 0
                  ELSE ub.rel[k]
        unreadable == {k \in 1..n : ~Readable(k)}
        compared == {k \in 1..n : \A j \in unreadable : k < j}
        differ == {k \in compared : Rel(k) # 0}
        first == CHOOSE k \in differ : \A j \in differ : k <= j
        ahead == IF ub.extent < n THEN ub.extent ELSE n
        upto == IF differ = {} THEN n
                ELSE IF first < ahead THEN ahead ELSE first
    IN  IF \E k \in unreadable : k <= upto THEN Fault
        ELSE IF differ = {} THEN Ok(0)
        ELSE Ok(Rel(first) * ub.magnitude)

(***************************************************************************)
(* class String                                                            *)
(***************************************************************************)
\* String() = default
EmptyString == [m_ptr |-> Null, m_length |-> 0, m_nul |-> NUL]

\* String(const wchar_t* ptr, size_t length)
MkString(ptr, length) == [m_ptr |-> ptr, m_length |-> length, m_nul |-> NUL]

\* String(const String& other) = default
CopyCtor(other) == [m_ptr |-> other.m_ptr, m_length |-> other.m_length, m_nul |-> NUL]

Length(h) == h.m_length

IsEmpty(h) == h.m_length = 0

\* Variant: m_ptr is returned whatever the length.
Str_AlwaysPtr(h) == [at |-> "heap", ptr |-> h.m_ptr]

\* Str(): where the returned pointer points, into the heap or at the
\* handle's own m_nul.
Str(h) == IF ~IsEmpty(h) THEN [at |-> "heap", ptr |-> h.m_ptr]
          ELSE [at |-> "m_nul", ptr |-> Null]

\* Str()[i]; behind the one wchar_t of m_nul the read is undefined.
StrAt(h, hp, i, ub) ==
    LET v == Str(h)
    IN  IF v.at = "heap" THEN ReadAt(hp, PtrAdd(v.ptr, i), ub)
        ELSE IF i = 0 THEN Ok(h.m_nul)
        ELSE ReadAt(hp, PtrAdd(Null, i), ub)

\* std::wstring(Str(), n): storage for more than LocalCapacity characters
\* is asked of operator new before the characters are copied.
WStringOf(h, hp, n, ub) ==
    IF n > LocalCapacity /\ ~ub.stores THEN BadAlloc
    ELSE IF \E i \in 0..(n - 1) : StrAt(h, hp, i, ub).outcome # "ok" THEN Fault
    ELSE Ok([i \in 1..n |-> StrAt(h, hp, i - 1, ub).value])

\* ToStdString(): std::wstring{ m_ptr, m_length }, or std::wstring{}, which
\* asks for no storage and reads nothing.
ToStdString(h, hp, ub) ==
    IF ~IsEmpty(h)
    THEN IF h.m_length > LocalCapacity /\ ~ub.stores THEN BadAlloc
         ELSE ReadChars(hp, h.m_ptr, h.m_length, ub)
    ELSE Ok(<<>>)

\* Variant: the lengths are compared before the characters.
Compare_LengthFirst(this, other, hp, ub) ==
    IF this.m_length < other.m_length THEN Ok(-1)
    ELSE IF this.m_length > other.m_length THEN Ok(1)
    ELSE Wmemcmp(hp, this.m_ptr, other.m_ptr, this.m_length, ub)

\* Compare(other)
Compare(this, other, hp, ub) ==
    LET minLength == IF this.m_length < other.m_length
                     THEN this.m_length ELSE other.m_length
        result == Wmemcmp(hp, this.m_ptr, other.m_ptr, minLength, ub)
    IN  IF result # Ok(0) THEN result
        ELSE IF this.m_length < other.m_length THEN Ok(-1)
        ELSE IF this.m_length > other.m_length THEN Ok(1)
        ELSE Ok(0)

\* The relational operators: each is a test of the result of Compare.
OpEq(a, b, hp, ub) ==
    LET c == Compare(a, b, hp, ub) IN [c EXCEPT !.value = (c.outcome = "ok" /\ @ = 0)]
OpNe(a, b, hp, ub) ==
    LET c == Compare(a, b, hp, ub) IN [c EXCEPT !.value = (c.outcome = "ok" /\ @ # 0)]
OpLt(a, b, hp, ub) ==
    LET c == Compare(a, b, hp, ub) IN [c EXCEPT !.value = (c.outcome = "ok" /\ @ < 0)]
OpGt(a, b, hp, ub) ==
    LET c == Compare(a, b, hp, ub) IN [c EXCEPT !.value = (c.outcome = "ok" /\ @ > 0)]
OpLe(a, b, hp, ub) ==
    LET c == Compare(a, b, hp, ub) IN [c EXCEPT !.value = (c.outcome = "ok" /\ @ <= 0)]
OpGe(a, b, hp, ub) ==
    LET c == Compare(a, b, hp, ub) IN [c EXCEPT !.value = (c.outcome = "ok" /\ @ >= 0)]

\* String(String&& other): ss[j] is constructed from std::move(ss[i]).
MoveCtor(ss, j, i) ==
    [ss EXCEPT ![j] = [m_ptr |-> ss[i].m_ptr, m_length |-> ss[i].m_length, m_nul |-> NUL],
               ![i] = [@ EXCEPT !.m_ptr = Null, !.m_length = 0]]

\* Variant: no test for self-assignment.
MoveAssign_NoSelfTest(ss, j, i) ==
    LET moved == [ss EXCEPT ![j] = [@ EXCEPT !.m_ptr = ss[i].m_ptr,
                                             !.m_length = ss[i].m_length]]
    IN  [moved EXCEPT ![i] = [@ EXCEPT !.m_ptr = Null, !.m_length = 0]]

\* operator=(String&& other): ss[j] = std::move(ss[i]).
MoveAssign(ss, j, i) ==
    IF i # j
    THEN [ss EXCEPT ![j] = [@ EXCEPT !.m_ptr = ss[i].m_ptr, !.m_length = ss[i].m_length],
                    ![i] = [@ EXCEPT !.m_ptr = Null, !.m_length = 0]]
    ELSE ss

\* swap(a, b) on ss[i] and ss[j]: the pointers and the lengths change
\* places, each m_nul stays.
Swap(ss, i, j) ==
    [ss EXCEPT ![i] = [@ EXCEPT !.m_ptr = ss[j].m_ptr, !.m_length = ss[j].m_length],
               ![j] = [@ EXCEPT !.m_ptr = ss[i].m_ptr, !.m_length = ss[i].m_length]]

(***************************************************************************)
(* class Allocator                                                         *)
(*                                                                         *)
(* The operators below work on a record a of the allocator's members and   *)
(* the memory it reaches: m_pNext, m_pLimit, m_chunks, capacity (the room   *)
(* of the vector m_chunks), heap, nextBlk, freeCount.                      *)
(***************************************************************************)
\* Allocator() = default, before any memory was requested.
NewAllocator == [m_pNext |-> Null, m_pLimit |-> Null, m_chunks |-> <<>>, capacity |-> 0]

\* Free(ptr): free() of one block.
Free(a, blk) ==
    [a EXCEPT !.heap = [b \in (DOMAIN a.heap) \ {blk} |-> a.heap[b]],
              !.freeCount = [@ EXCEPT ![blk] = @ + 1]]

\* The loop of Clear() over the first n chunks.
RECURSIVE FreeChunks(_, _)
FreeChunks(a, n) ==
    IF n = 0 THEN a ELSE Free(FreeChunks(a, n - 1), a.m_chunks[n])

\* Clear()
Clear(a) ==
    [FreeChunks(a, Len(a.m_chunks)) EXCEPT
        !.m_chunks = <<>>, !.m_pNext = Null, !.m_pLimit = Null]

\* Variant: the test forgets the length asked for.
CarveFits_NoLength(a, length) == PtrLe(a.m_pNext, a.m_pLimit)

\* m_pNext + length <= m_pLimit
CarveFits(a, length) == PtrLe(PtrAdd(a.m_pNext, length), a.m_pLimit)

\* Variant: the ceiling is taken in bytes.
TooLong_Bytes(length) == length > kMaxStringLength * SizeofWchar

\* length > kMaxStringLength
TooLong(length) == length > kMaxStringLength

\* Variant: the length is not multiplied by the size of a character.
ChunkSizeInBytes_NoSizeof(length) ==
    LET chunkSizeInBytes == length + SizeofChunkHeader
    IN  IF chunkSizeInBytes < kMinChunkSizeInBytes THEN kMinChunkSizeInBytes
        ELSE chunkSizeInBytes

\* Variant: the minimum chunk size is not applied.
ChunkSizeInBytes_NoFloor(length) == (length * SizeofWchar) + SizeofChunkHeader

\* Variant: the minimum chunk size is added to what the request needs.
ChunkSizeInBytes_AddsFloor(length) ==
    (length * SizeofWchar) + SizeofChunkHeader + kMinChunkSizeInBytes

\* The size of a new chunk, not smaller than the minimum chunk size.
ChunkSizeInBytes(length) ==
    LET chunkSizeInBytes == (length * SizeofWchar) + SizeofChunkHeader
    IN  IF chunkSizeInBytes < kMinChunkSizeInBytes THEN kMinChunkSizeInBytes
        ELSE chunkSizeInBytes

\* The provider has a block left to give.
CanProvide(a) == a.nextBlk <= MaxBlocks

\* A successful Allocate(cb) followed by the set-up of the new chunk: the
\* limit, the header and the cursor.  The chunk is not in m_chunks yet.
NewChunk(a, cb) ==
    LET pChunkStart == [blk |-> a.nextBlk, off |-> 0]
    IN  [a EXCEPT
            !.heap = [b \in (DOMAIN a.heap) \cup {a.nextBlk} |->
                        IF b = a.nextBlk
                        THEN [FreshBlock(cb) EXCEPT !.SizeInBytes = cb]
                        ELSE a.heap[b]],
            !.nextBlk = @ + 1,
            !.m_pLimit = [blk |-> pChunkStart.blk, off |-> pChunkStart.off + cb],
            !.m_pNext = [blk |-> pChunkStart.blk,
                         off |-> pChunkStart.off + SizeofChunkHeader]]

\* The capacity a full std::vector of n elements grows to (the library of
\* the build doubles it: n + max(n, 1)).
GrownCapacity(n) == n + (IF n > 1 THEN n ELSE 1)

\* m_chunks.push_back(pNewChunk).  A full vector asks for larger storage
\* first; grows says whether it gets it.  When it does not, push_back throws
\* std::bad_alloc and leaves the vector as it was.
PushBack(a, pNewChunk, grows) ==
    IF Len(a.m_chunks) < a.capacity
    THEN [ok |-> TRUE, a |-> [a EXCEPT !.m_chunks = Append(@, pNewChunk)]]
    ELSE IF grows
    THEN [ok |-> TRUE, a |-> [a EXCEPT !.m_chunks = Append(@, pNewChunk),
                                       !.capacity = GrownCapacity(Len(a.m_chunks))]]
    ELSE [ok |-> FALSE, a |-> a]

\* AllocMemory(length).  provides says whether malloc succeeds when asked,
\* grows whether the vector m_chunks gets storage when it asks.  The result:
\* how the call ended, the pointer returned, the allocator after the call,
\* the number of calls of Allocate and the depth of the recursion reached.
\* The three failures all throw std::bad_alloc: "TooLarge" at the length
\* test, "OutOfMemory" when Allocate returned nullptr, "PushBackOutOfMemory"
\* out of m_chunks.push_back, after the cursor and the limit were moved to
\* the new block.
RECURSIVE AllocMemory(_, _, _, _)
AllocMemory(a, length, provides, grows) ==
    IF CarveFits(a, length)
    THEN [outcome |-> "ok", ptr |-> a.m_pNext,
          a |-> [a EXCEPT !.m_pNext = PtrAdd(@, length)],
          mallocs |-> 0, depth |-> 0]
    ELSE IF TooLong(length)
    THEN [outcome |-> "TooLarge", ptr |-> Null, a |-> a, mallocs |-> 0, depth |-> 0]
    ELSE IF ~(provides /\ CanProvide(a))
    THEN [outcome |-> "OutOfMemory", ptr |-> Null, a |-> a, mallocs |-> 1, depth |-> 0]
    ELSE LET b == NewChunk(a, ChunkSizeInBytes(length))
             pushed == PushBack(b, a.nextBlk, grows)
         IN  IF ~pushed.ok
             THEN [outcome |-> "PushBackOutOfMemory", ptr |-> Null, a |-> b,
                   mallocs |-> 1, depth |-> 0]
             ELSE LET r == AllocMemory(pushed.a, length, provides, grows)
                  IN  [r EXCEPT !.mallocs = @ + 1, !.depth = @ + 1]

\* Variant: the terminating NUL is not written.
AllocString_NoTerminator(a, s, provides, grows) ==
    LET length == Len(s)
        lengthWithNul == length + 1
        r == AllocMemory(a, lengthWithNul, provides, grows)
    IN  IF r.outcome # "ok"
        THEN [outcome |-> r.outcome, str |-> EmptyString, a |-> r.a,
              mallocs |-> r.mallocs, depth |-> r.depth]
        ELSE [outcome |-> "ok", str |-> MkString(r.ptr, length),
              a |-> [r.a EXCEPT !.heap = Wmemcpy(@, r.ptr, s, length)],
              mallocs |-> r.mallocs, depth |-> r.depth]

\* AllocString(start, finish), the source range being the sequence s.
AllocString(a, s, provides, grows) ==
    LET length == Len(s)
        lengthWithNul == length + 1
        r == AllocMemory(a, lengthWithNul, provides, grows)
    IN  IF r.outcome # "ok"
        THEN [outcome |-> r.outcome, str |-> EmptyString, a |-> r.a,
              mallocs |-> r.mallocs, depth |-> r.depth]
        ELSE [outcome |-> "ok", str |-> MkString(r.ptr, length),
              a |-> [r.a EXCEPT !.heap =
                        WriteAt(Wmemcpy(@, r.ptr, s, length), PtrAdd(r.ptr, length), NUL)],
              mallocs |-> r.mallocs, depth |-> r.depth]

VARIABLES
    m_pNext,     \* Allocator::m_pNext
    m_pLimit,    \* Allocator::m_pLimit
    m_chunks,    \* Allocator::m_chunks, the block numbers in order
    capacity,    \* m_chunks.capacity()
    heap,        \* the live malloc blocks: blk -> [size, SizeInBytes, Chars]
    nextBlk,     \* the number of the next block the provider hands out
    freeCount,   \* how many times free() was called on each block
    alive,       \* FALSE once ~Allocator has run
    returned,    \* the handles returned since the last Clear, with their sources
    strs,        \* the caller's String variables
    last         \* the operation that ran last and how it ended

vars == <<m_pNext, m_pLimit, m_chunks, capacity, heap, nextBlk, freeCount, alive,
          returned, strs, last>>

\* The allocator's members and the memory it reaches, as one record.
Alloc ==
    [m_pNext |-> m_pNext, m_pLimit |-> m_pLimit, m_chunks |-> m_chunks,
     capacity |-> capacity, heap |-> heap, nextBlk |-> nextBlk,
     freeCount |-> freeCount]

SetAlloc(a) ==
    /\ m_pNext' = a.m_pNext
    /\ m_pLimit' = a.m_pLimit
    /\ m_chunks' = a.m_chunks
    /\ capacity' = a.capacity
    /\ heap' = a.heap
    /\ nextBlk' = a.nextBlk
    /\ freeCount' = a.freeCount

allocVars == <<m_pNext, m_pLimit, m_chunks, capacity, heap, nextBlk, freeCount, alive>>

\* What last records: the operation, how it ended and, for AllocString, the
\* length asked for, provides: no block was asked of the provider and
\* refused, grows: no storage was asked for the vector and refused, the
\* calls of Allocate made and the depth of recursion reached; for an operation on String variables, the variables it
\* wrote to and read from; for ToStdString and Compare, the result.
Done(op) == [op |-> op, outcome |-> "ok", len |-> 0, provides |-> FALSE,
             grows |-> FALSE, mallocs |-> 0, depth |-> 0, dst |-> 0, src |-> 0,
             text |-> <<>>, cmp |-> 0]

\* The process has not been stopped on an invalid access.
Running == last.outcome # "SIGSEGV"

\* A fresh allocator, no memory requested yet, and default-constructed
\* String variables.
Init ==
    /\ m_pNext = NewAllocator.m_pNext
    /\ m_pLimit = NewAllocator.m_pLimit
    /\ m_chunks = NewAllocator.m_chunks
    /\ capacity = NewAllocator.capacity
    /\ heap = [b \in {} |-> FreshBlock(0)]
    /\ nextBlk = 1
    /\ freeCount = [b \in 1..MaxBlocks |-> 0]
    /\ alive = TRUE
    /\ returned = <<>>
    /\ strs = [v \in StrVars |-> EmptyString]
    /\ last = Done("Allocator")

\* The live blocks that are not in m_chunks: Clear() will not free them.
Lost == {b \in DOMAIN heap : \A k \in 1..Len(m_chunks) : m_chunks[k] # b}

\* pool.push_back(alloc.AllocString(s)); the caller holds at most MaxAllocs
\* handles, and at most MaxLost blocks are lost in one run.
DoAllocString(s, provides, grows) ==
    /\ Running
    /\ alive
    /\ LET r == AllocString(Alloc, s, provides, grows)
       IN  /\ r.outcome = "ok" => Len(returned) < MaxAllocs
           /\ r.outcome = "PushBackOutOfMemory" => Cardinality(Lost) < MaxLost
           /\ SetAlloc(r.a)
           /\ returned' = IF r.outcome = "ok"
                          THEN Append(returned, [str |-> r.str, s |-> s])
                          ELSE returned
           /\ last' = [Done("AllocString") EXCEPT
                            !.outcome = r.outcome, !.len = Len(s),
                            !.provides = ~(r.mallocs = 1 /\ ~(provides /\ CanProvide(Alloc))),
                            !.grows = ~(/\ r.mallocs = 1
                                        /\ provides /\ CanProvide(Alloc)
                                        /\ Len(m_chunks) = capacity
                                        /\ ~grows),
                            !.mallocs = r.mallocs, !.depth = r.depth]
    /\ UNCHANGED <<alive, strs>>

\* alloc.Clear(); the caller drops the handles it got.
DoClear ==
    /\ Running
    /\ alive
    /\ SetAlloc(Clear(Alloc))
    /\ returned' = <<>>
    /\ last' = Done("Clear")
    /\ UNCHANGED <<alive, strs>>

\* ~Allocator()
DoDestroy ==
    /\ Running
    /\ alive
    /\ SetAlloc(Clear(Alloc))
    /\ alive' = FALSE
    /\ returned' = <<>>
    /\ last' = Done("~Allocator")
    /\ UNCHANGED strs

\* String strs[j]{ pool[k] }
DoCopyConstruct(j, k) ==
    /\ Running
    /\ k \in 1..Len(returned)
    /\ strs' = [strs EXCEPT ![j] = CopyCtor(returned[k].str)]
    /\ last' = [Done("CopyCtor") EXCEPT !.dst = j, !.src = k]
    /\ UNCHANGED <<allocVars, returned>>

\* String strs[j]{ std::move(strs[i]) }
DoMoveConstruct(j, i) ==
    /\ Running
    /\ i # j
    /\ strs' = MoveCtor(strs, j, i)
    /\ last' = [Done("MoveCtor") EXCEPT !.dst = j, !.src = i]
    /\ UNCHANGED <<allocVars, returned>>

\* strs[j] = std::move(strs[i])
DoMoveAssign(j, i) ==
    /\ Running
    /\ strs' = MoveAssign(strs, j, i)
    /\ last' = [Done("MoveAssign") EXCEPT !.dst = j, !.src = i]
    /\ UNCHANGED <<allocVars, returned>>

\* swap(strs[j], strs[i])
DoSwap(j, i) ==
    /\ Running
    /\ strs' = Swap(strs, j, i)
    /\ last' = [Done("swap") EXCEPT !.dst = j, !.src = i]
    /\ UNCHANGED <<allocVars, returned>>

\* The addresses of the first n characters of h that are in no live block.
Dangling(h, n) ==
    {p \in {PtrAdd(h.m_ptr, i) : i \in 0..(n - 1)} : ~InBlock(heap, p)}

\* strs[j].ToStdString().  A handle kept after Clear() or ~Allocator() makes
\* the reads undefined: ub is what the build does with them.
DoToStdString(j, ub) ==
    /\ Running
    /\ LET r == ToStdString(strs[j], heap, ub)
       IN  last' = [Done("ToStdString") EXCEPT
                        !.outcome = r.outcome, !.src = j, !.text = r.value]
    /\ UNCHANGED <<allocVars, returned, strs>>

\* strs[j].Compare(strs[i]), with ub as for ToStdString.
DoCompare(j, i, ub) ==
    /\ Running
    /\ LET r == Compare(strs[j], strs[i], heap, ub)
       IN  last' = [Done("Compare") EXCEPT
                        !.outcome = r.outcome, !.dst = j, !.src = i, !.cmp = r.value]
    /\ UNCHANGED <<allocVars, returned, strs>>

\* The allocator and the handles it returns.
Next ==
    \/ \E s \in Sources, provides \in BOOLEAN, grows \in BOOLEAN :
          DoAllocString(s, provides, grows)
    \/ DoClear
    \/ DoDestroy

Spec == Init /\ [][Next]_vars

\* Handles for every source over Chars, to be compared with each other.
NextCmp ==
    \/ \E s \in Inputs : DoAllocString(s, TRUE, TRUE)
    \/ DoClear
    \/ DoDestroy

SpecCmp == Init /\ [][NextCmp]_vars

\* The shorter of two lengths.
MinLength(x, y) == IF x.m_length < y.m_length THEN x.m_length ELSE y.m_length

\* Every behaviour of the undefined reads of x.Compare(y) and of the
\* library: any of the freed addresses are mapped (S); the pairs in which a
\* value of freed memory is compared with something at another address are
\* found in every order; the result has every magnitude; the library reads
\* ahead every number of elements.  A part of the behaviour that the call
\* cannot meet is not varied: the order of a pair behind an address that is
\* not mapped, the magnitude when the first address read is not mapped,
\* the reading ahead when every address is mapped or the first is not.
UndefinedCompare(x, y) ==
    LET n == MinLength(x, y)
        ps == Dangling(x, n) \cup Dangling(y, n)
        pair(k) == {PtrAdd(x.m_ptr, k - 1), PtrAdd(y.m_ptr, k - 1)}
        compared(S) == {k \in 1..n : \A j \in 1..k : pair(j) \cap ps \subseteq S}
        undetermined(S) ==
            {k \in compared(S) : Cardinality(pair(k)) = 2 /\ pair(k) \cap ps # {}}
        magnitudes(S) == IF compared(S) = {} THEN {Segv.magnitude} ELSE Magnitudes
        extents(S) == IF compared(S) = {} \/ compared(S) = 1..n
                      THEN {Segv.extent} ELSE 1..n
    IN  UNION {{[mapped |-> S, rel |-> r, magnitude |-> m, extent |-> e,
                 stores |-> TRUE] :
                    r \in [undetermined(S) -> {-1, 0, 1}],
                    m \in magnitudes(S), e \in extents(S)} :
               S \in SUBSET ps}

\* The caller's String variables, copied, moved, swapped and read through
\* ToStdString and Compare, while the allocator lives and after it is gone;
\* a read through a handle whose memory was freed does whatever the build
\* does with it.
NextStr ==
    \/ \E s \in Sources : Len(returned) < MaxHeld /\ DoAllocString(s, TRUE, TRUE)
    \/ DoClear
    \/ DoDestroy
    \/ \E j \in StrVars, k \in 1..MaxAllocs : DoCopyConstruct(j, k)
    \/ \E j \in StrVars, i \in StrVars : DoMoveConstruct(j, i)
    \/ \E j \in StrVars, i \in StrVars : DoMoveAssign(j, i)
    \/ \E j \in StrVars, i \in StrVars : DoSwap(j, i)
    \/ \E j \in StrVars :
          \E ub \in UndefinedReads(Dangling(strs[j], strs[j].m_length)) :
             DoToStdString(j, ub)
    \/ \E j \in StrVars, i \in StrVars :
          \E ub \in UndefinedCompare(strs[j], strs[i]) : DoCompare(j, i, ub)

SpecStr == Init /\ [][NextStr]_vars

(***************************************************************************)
(* Properties                                                              *)
(***************************************************************************)
\* Free wchar_t slots left in the current chunk.
FreeSlots == (m_pLimit.off - m_pNext.off) \div SizeofWchar

\* The step is a call of AllocString.
AllocStep == last'.op = "AllocString"

\* C1: every handle returned since the last Clear has the length of its
\* source, is empty exactly when the source is, and reads back the source,
\* through Str()/Length() and through ToStdString(), whatever calls of
\* AllocString, failed or not, came after it.
C1_RoundTripStable ==
    \A k \in 1..Len(returned) :
        LET h == returned[k].str
            s == returned[k].s
        IN  /\ Length(h) = Len(s)
            /\ IsEmpty(h) <=> (Len(s) = 0)
            /\ WStringOf(h, heap, Length(h), Segv) = Ok(s)
            /\ ToStdString(h, heap, Segv) = Ok(s)

\* Three handles, the first for an empty source and a later one in a block
\* that is not in the chunk list, still held after a call that failed.
C1_Witness ==
    /\ Len(returned) = 3
    /\ returned[1].s = <<>>
    /\ returned[2].s # <<>>
    /\ \E k \in 1..Len(returned) : returned[k].str.m_ptr.blk \in Lost
    /\ last.op = "AllocString"
    /\ last.outcome # "ok"

\* C2: a call with length <= kMaxStringLength never ends in the
\* too-large failure, and succeeds whenever the memory asked for is given.
C2_AcceptUpToCeiling ==
    (last.op = "AllocString" /\ last.len <= kMaxStringLength)
        => /\ last.outcome # "TooLarge"
           /\ (last.provides /\ last.grows) => last.outcome = "ok"

\* C3: a call with length > kMaxStringLength ends in the too-large failure,
\* without a call of the provider, with no handle returned and the chunk
\* list as it was.
C3_OversizedRejected ==
    [][(AllocStep /\ last'.len > kMaxStringLength)
          => /\ last'.outcome = "TooLarge"
             /\ last'.mallocs = 0
             /\ nextBlk' = nextBlk
             /\ returned' = returned
             /\ m_chunks' = m_chunks]_vars

\* An oversized call was refused while the current chunk had room left.
C3_Witness ==
    /\ last.op = "AllocString"
    /\ last.len > kMaxStringLength
    /\ last.outcome = "TooLarge"
    /\ FreeSlots >= 1
    /\ Len(returned) >= 1

\* C4: a call of AllocString that fails leaves the allocator, the memory
\* and the handles as they were.
C4_FailureAtomic ==
    [][(AllocStep /\ last'.outcome # "ok")
          => /\ m_pNext' = m_pNext
             /\ m_pLimit' = m_pLimit
             /\ m_chunks' = m_chunks
             /\ heap' = heap
             /\ nextBlk' = nextBlk
             /\ freeCount' = freeCount
             /\ returned' = returned]_vars

\* C5: with r free slots, a call needing exactly r slots carves: no call of
\* the provider, no new chunk, and the cursor ends at the limit; a call
\* needing r + 1 slots, within the ceiling and with the memory asked for
\* given (the block, and storage for the chunk list when it is full),
\* appends exactly one chunk.
C5_CarveGrowBoundary ==
    [][AllocStep =>
          LET r == FreeSlots
              need == last'.len + 1
          IN  /\ need = r
                    => /\ last'.outcome = "ok"
                       /\ last'.mallocs = 0
                       /\ m_chunks' = m_chunks
                       /\ m_pNext' = m_pLimit'
                       /\ m_pLimit' = m_pLimit
              /\ (need = r + 1 /\ last'.len <= kMaxStringLength
                                /\ last'.provides /\ last'.grows)
                    => /\ last'.outcome = "ok"
                       /\ last'.mallocs = 1
                       /\ Len(m_chunks') = Len(m_chunks) + 1
                       /\ SubSeq(m_chunks', 1, Len(m_chunks)) = m_chunks]_vars

\* What a call of AllocString shows: how it ended, the handle, the calls
\* of Allocate, the recursion, and the chunk list, cursor and limit it left.
Behaviour(r) ==
    [outcome |-> r.outcome, str |-> r.str, mallocs |-> r.mallocs, depth |-> r.depth,
     m_pNext |-> r.a.m_pNext, m_pLimit |-> r.a.m_pLimit, m_chunks |-> r.a.m_chunks]

\* A newly constructed allocator, with the provider and the memory as they
\* are now.
Fresh ==
    [m_pNext |-> NewAllocator.m_pNext, m_pLimit |-> NewAllocator.m_pLimit,
     m_chunks |-> NewAllocator.m_chunks, capacity |-> NewAllocator.capacity,
     heap |-> heap, nextBlk |-> nextBlk, freeCount |-> freeCount]

\* The chunk list is empty and the cursor and the limit are null, as in a
\* new allocator.
MembersLikeNew ==
    /\ m_pNext = NewAllocator.m_pNext
    /\ m_pLimit = NewAllocator.m_pLimit
    /\ m_chunks = NewAllocator.m_chunks

\* Every call of AllocString does what it does on a new allocator, whatever
\* memory is given or refused.
LikeNew ==
    /\ MembersLikeNew
    /\ \A s \in Sources, provides \in BOOLEAN, grows \in BOOLEAN :
          Behaviour(AllocString(Alloc, s, provides, grows))
             = Behaviour(AllocString(Fresh, s, provides, grows))

\* The call of AllocString that comes first after Clear, when it returns a
\* handle, has created a chunk, the only one of the list.
FirstAfterClearGrows ==
    (last.op = "Clear" /\ AllocStep /\ last'.outcome = "ok")
        => /\ last'.mallocs = 1
           /\ Len(m_chunks') = 1
           /\ m_chunks'[1] \notin DOMAIN heap

\* C6: after Clear the allocator is in the state of a newly constructed one
\* (no chunk in the list, cursor and limit null), so that calls of
\* AllocString create chunks, succeed and fail as on a new allocator given
\* the same answers to its requests for memory, already the first of them;
\* and the first call after Clear creates a chunk.
C6_ClearLikeNew ==
    /\ [](last.op = "Clear" => LikeNew)
    /\ [][FirstAfterClearGrows]_vars

\* The blocks obtained from the provider so far.
Obtained == 1..(nextBlk - 1)

\* No block is freed twice, the blocks of the chunk list are the live ones,
\* every other block obtained was freed once, and after destruction every
\* block obtained was freed.
FreedOnce ==
    /\ \A b \in 1..MaxBlocks : freeCount[b] <= 1
    /\ \A b \in 1..MaxBlocks : freeCount[b] = 1 => b \in Obtained
    /\ \A b \in Obtained : (freeCount[b] = 0) <=> (b \in DOMAIN heap)
    /\ \A b \in Obtained : (b \in DOMAIN heap) <=> (\E k \in 1..Len(m_chunks) : m_chunks[k] = b)
    /\ ~alive => \A b \in Obtained : freeCount[b] = 1

\* C7: every block obtained from the provider is freed exactly once, by
\* Clear or by the destructor and by nothing else, and none is left after
\* destruction.
C7_ReleaseOnce ==
    [][/\ FreedOnce'
       /\ freeCount' # freeCount => last'.op \in {"Clear", "~Allocator"}]_vars

\* The standard lexicographic comparison of two sequences: element-wise,
\* the shorter one less on a tie.
RECURSIVE LexCmp(_, _)
LexCmp(x, y) ==
    IF x = <<>> /\ y = <<>> THEN 0
    ELSE IF x = <<>> THEN -1
    ELSE IF y = <<>> THEN 1
    ELSE IF Head(x) < Head(y) THEN -1
    ELSE IF Head(x) > Head(y) THEN 1
    ELSE LexCmp(Tail(x), Tail(y))

Sign(n) == IF n < 0 THEN -1 ELSE IF n > 0 THEN 1 ELSE 0

\* C8: for every two handles returned, the sign of Compare is the result of
\* the lexicographic comparison of their sources, and the six relational
\* operators agree with it.
C8_OrderingConsistent ==
    \A i, j \in 1..Len(returned), m \in Magnitudes :
        LET x == returned[i].str
            y == returned[j].str
            l == LexCmp(returned[i].s, returned[j].s)
            lib == Library(m)
        IN  /\ Compare(x, y, heap, lib).outcome = "ok"
            /\ Sign(Compare(x, y, heap, lib).value) = l
            /\ OpEq(x, y, heap, lib) = Ok(l = 0)
            /\ OpNe(x, y, heap, lib) = Ok(l # 0)
            /\ OpLt(x, y, heap, lib) = Ok(l < 0)
            /\ OpGt(x, y, heap, lib) = Ok(l > 0)
            /\ OpLe(x, y, heap, lib) = Ok(l <= 0)
            /\ OpGe(x, y, heap, lib) = Ok(l >= 0)

\* Handles for an empty source, a source and a proper extension of it.
C8_Witness ==
    /\ Len(returned) = 3
    /\ returned[1].s = <<>>
    /\ returned[2].s = <<3>>
    /\ returned[3].s = <<3, 1>>

\* The handle does not point into freed memory.
Readable(h) == IsEmpty(h) \/ h.m_ptr.blk \in DOMAIN heap

\* The step moved strs[i] into strs[j].
MoveStep(j, i) ==
    /\ last'.op \in {"MoveCtor", "MoveAssign"}
    /\ last'.dst = j
    /\ last'.src = i

\* C9: a move into a distinct handle gives it the pointer and length of the
\* source and the same data to read; the source is left with length 0 and
\* a null pointer, and is usable as an empty handle: IsEmpty, Str() a
\* terminated view of length zero, ToStdString() empty, Compare as for the
\* empty string.  A move-assignment to itself changes nothing.  No move
\* touches the allocator.
C9_MoveSemantics ==
    [][\A j, i \in StrVars :
          MoveStep(j, i) =>
             /\ UNCHANGED allocVars
             /\ i = j => strs' = strs
             /\ i # j =>
                   /\ strs'[j].m_ptr = strs[i].m_ptr
                   /\ strs'[j].m_length = strs[i].m_length
                   /\ Readable(strs[i])
                         => /\ ToStdString(strs[i], heap, Segv).outcome = "ok"
                            /\ ToStdString(strs'[j], heap', Segv)
                                  = ToStdString(strs[i], heap, Segv)
                   /\ strs'[i].m_ptr = Null
                   /\ strs'[i].m_length = 0
                   /\ IsEmpty(strs'[i])
                   /\ Str(strs'[i]).at = "m_nul"
                   /\ StrAt(strs'[i], heap', 0, Segv) = Ok(NUL)
                   /\ WStringOf(strs'[i], heap', Length(strs'[i]), Segv) = Ok(<<>>)
                   /\ ToStdString(strs'[i], heap', Segv) = Ok(<<>>)
                   /\ \A k \in 1..Len(returned') :
                         /\ Compare(strs'[i], returned'[k].str, heap', Segv)
                               = Ok(LexCmp(<<>>, returned'[k].s))
                         /\ Compare(returned'[k].str, strs'[i], heap', Segv)
                               = Ok(LexCmp(returned'[k].s, <<>>))
                   /\ Compare(strs'[i], strs'[i], heap', Segv) = Ok(0)]_vars

\* A handle with data was move-assigned: the target reads the data of a
\* handle still held, the source is empty.
C9_Witness ==
    /\ last.op = "MoveAssign"
    /\ last.dst # last.src
    /\ strs[last.dst].m_length = 2
    /\ strs[last.src] = EmptyString
    /\ \E k \in 1..Len(returned) :
          /\ returned[k].str.m_ptr = strs[last.dst].m_ptr
          /\ ToStdString(strs[last.dst], heap, Segv) = Ok(returned[k].s)

\* The handles at hand that can be read: those returned and the caller's
\* String variables.
Handles ==
    {returned[k].str : k \in 1..Len(returned)}
        \cup {strs[v] : v \in {w \in StrVars : Readable(strs[w])}}

\* C10: Compare returns -1, 0 or +1 for every pair of handles, whatever
\* the library returns from wmemcmp within the C standard.
C10_CompareRange ==
    \A x, y \in Handles, m \in Magnitudes :
        Compare(x, y, heap, Library(m)) \in {Ok(-1), Ok(0), Ok(1)}

\* C11: a call of AllocString asks the provider for at most one block and
\* recurses at most once; once a chunk was added the retry carves from it,
\* so the call succeeds.
C11_GrowOnce ==
    last.op = "AllocString"
        => /\ last.mallocs <= 1
           /\ last.depth <= 1
           /\ last.depth = 1 => (last.outcome = "ok" /\ last.mallocs = 1)
           /\ last.outcome = "OutOfMemory" => (last.mallocs = 1 /\ last.depth = 0)
           /\ last.outcome = "PushBackOutOfMemory" => (last.mallocs = 1 /\ last.depth = 0)
           /\ last.outcome = "TooLarge" => (last.mallocs = 0 /\ last.depth = 0)

\* The longest source accepted got a chunk of its own after one retry, the
\* chunk before it having had room left.
C11_Witness ==
    /\ last.op = "AllocString"
    /\ last.outcome = "ok"
    /\ last.depth = 1
    /\ last.len = kMaxStringLength - 1
    /\ Len(m_chunks) = 2
    /\ Len(returned) = 2

\* The larger of two sizes.
Larger(x, y) == IF x >= y THEN x ELSE y

\* The size the chunk made for a source of n characters must have.
SizeFor(n) == Larger(kMinChunkSizeInBytes, ((n + 1) * SizeofWchar) + SizeofChunkHeader)

\* Every chunk of the list is a live block at least as large as the minimum
\* chunk, and its header holds the size that was asked of the provider.
ChunksSized ==
    \A k \in 1..Len(m_chunks) :
        /\ m_chunks[k] \in DOMAIN heap
        /\ heap[m_chunks[k]].size >= kMinChunkSizeInBytes
        /\ heap[m_chunks[k]].SizeInBytes = heap[m_chunks[k]].size

\* C12: the chunk a call creates for a source of n characters has size
\* max(kMinChunkSizeInBytes, (n + 1) * sizeof(wchar_t) + sizeof(ChunkHeader));
\* every chunk of the list has at least the minimum size and records in its
\* header the size asked of the provider.
C12_ChunkSizing ==
    /\ []ChunksSized
    /\ [][(AllocStep /\ Len(m_chunks') > Len(m_chunks))
             => LET b == m_chunks'[Len(m_chunks')]
                IN  /\ b \notin DOMAIN heap
                    /\ b \in DOMAIN heap'
                    /\ heap'[b].size = SizeFor(last'.len)
                    /\ heap'[b].SizeInBytes = SizeFor(last'.len)]_vars

\* The list holds a chunk of the minimum size and a larger one made for a
\* single source.
C12_Witness ==
    /\ Len(m_chunks) = 2
    /\ heap[m_chunks[1]].size = kMinChunkSizeInBytes
    /\ heap[m_chunks[2]].size > kMinChunkSizeInBytes
    /\ heap[m_chunks[2]].SizeInBytes = (kMaxStringLength * SizeofWchar) + SizeofChunkHeader

\* C13: the cursor never passes the limit; with no chunk both are null;
\* otherwise both point into the chunk appended last, the cursor at or
\* after the first slot behind the header, on a slot boundary, and the limit
\* one past the last slot of that chunk.
C13_CursorInvariant ==
    /\ PtrLe(m_pNext, m_pLimit)
    /\ m_chunks = <<>> => (m_pNext = Null /\ m_pLimit = Null)
    /\ m_chunks # <<>> =>
          LET b == m_chunks[Len(m_chunks)]
          IN  /\ b \in DOMAIN heap
              /\ m_pNext.blk = b
              /\ m_pLimit.blk = b
              /\ m_pNext.off >= SizeofChunkHeader
              /\ (m_pNext.off - SizeofChunkHeader) % SizeofWchar = 0
              /\ m_pNext.off <= m_pLimit.off
              /\ m_pLimit.off = heap[b].size
              /\ m_pLimit.off = SizeofChunkHeader + (Len(heap[b].Chars) * SizeofWchar)

\* xs is the beginning of ys.
IsPrefix(xs, ys) == Len(xs) <= Len(ys) /\ SubSeq(ys, 1, Len(xs)) = xs

\* The chunks of the list are in the order in which the provider gave them,
\* and every handle returned points into a chunk of the list.
ChunksInOrder ==
    /\ \A k, l \in 1..Len(m_chunks) : k < l => m_chunks[k] < m_chunks[l]
    /\ \A k \in 1..Len(returned) :
          \E l \in 1..Len(m_chunks) : returned[k].str.m_ptr.blk = m_chunks[l]

\* C14: a call of AllocString writes only to the chunk that is last in the
\* list after the call and returns a handle into that chunk; every chunk
\* before it is left as it was.  The list only grows at its end, in the
\* order of creation, until Clear or the destructor empties it.
C14_SingleActiveChunk ==
    /\ []ChunksInOrder
    /\ [][/\ AllocStep =>
                /\ IsPrefix(m_chunks, m_chunks')
                /\ Len(m_chunks') <= Len(m_chunks) + 1
                /\ \A k \in 1..(Len(m_chunks') - 1) :
                      /\ m_chunks'[k] \in DOMAIN heap
                      /\ heap'[m_chunks'[k]] = heap[m_chunks'[k]]
                /\ last'.outcome = "ok" =>
                      /\ returned'[Len(returned')].str.m_ptr.blk = m_chunks'[Len(m_chunks')]
                      /\ m_pNext'.blk = m_chunks'[Len(m_chunks')]
          /\ last'.op \notin {"Clear", "~Allocator"} => IsPrefix(m_chunks, m_chunks')]_vars

\* Every handle returned has, right after its characters, a slot holding
\* NUL, which its length does not count.
Terminated ==
    \A k \in 1..Len(returned) :
        LET h == returned[k].str
        IN  /\ Length(h) = Len(returned[k].s)
            /\ InBlock(heap, PtrAdd(h.m_ptr, Length(h)))
            /\ ReadAt(heap, PtrAdd(h.m_ptr, Length(h)), Segv) = Ok(NUL)

\* C15: a successful call for n characters takes exactly n + 1 slots of the
\* chunk it allocates from: the cursor ends n + 1 slots past the start of the
\* handle, the handle starts where the cursor was (or at the first slot of a
\* chunk just made), also for n = 0; and every handle returned since the
\* last Clear is followed by NUL, its length not counting it.
C15_TerminatorAndSlots ==
    /\ []Terminated
    /\ [][(AllocStep /\ last'.outcome = "ok")
             => LET h == returned'[Len(returned')].str
                    n == last'.len
                IN  /\ h.m_length = n
                    /\ m_pNext' = PtrAdd(h.m_ptr, n + 1)
                    /\ last'.mallocs = 0
                          => /\ h.m_ptr = m_pNext
                             /\ m_pLimit' = m_pLimit
                             /\ (m_pLimit'.off - m_pNext'.off) \div SizeofWchar
                                   = FreeSlots - (n + 1)
                    /\ last'.mallocs = 1
                          => /\ h.m_ptr = [blk |-> nextBlk, off |-> SizeofChunkHeader]
                             /\ (m_pLimit'.off - m_pNext'.off) \div SizeofWchar
                                   = Len(heap'[nextBlk].Chars) - (n + 1)]_vars

\* A handle for the empty source and the handle after it share a chunk: the
\* second starts one slot after the first.
C15_Witness ==
    /\ Len(returned) = 2
    /\ returned[1].s = <<>>
    /\ returned[2].s = <<>>
    /\ returned[2].str.m_ptr = PtrAdd(returned[1].str.m_ptr, 1)
    /\ m_pNext = m_pLimit

\* The bytes of its block a handle occupies, the terminator included:
\* from lo up to but not including hi.
Lo(h) == h.m_ptr.off
Hi(h) == h.m_ptr.off + ((h.m_length + 1) * SizeofWchar)

\* C17: the regions of the handles returned since the last Clear, each with
\* its terminator, are pairwise disjoint; each lies in the slots of exactly
\* one chunk of the list, behind the header, and below the cursor when it is
\* in the current chunk.
C17_RegionsDisjoint ==
    /\ \A k \in 1..Len(returned) :
          LET h == returned[k].str
          IN  /\ Cardinality({l \in 1..Len(m_chunks) : m_chunks[l] = h.m_ptr.blk}) = 1
              /\ h.m_ptr.blk \in DOMAIN heap
              /\ Lo(h) >= SizeofChunkHeader
              /\ Hi(h) <= heap[h.m_ptr.blk].size
              /\ \A i \in 0..h.m_length : InBlock(heap, PtrAdd(h.m_ptr, i))
              /\ h.m_ptr.blk = m_pNext.blk => Hi(h) <= m_pNext.off
    /\ \A k, l \in 1..Len(returned) :
          LET x == returned[k].str
              y == returned[l].str
          IN  (k # l /\ x.m_ptr.blk = y.m_ptr.blk)
                 => (Hi(x) <= Lo(y) \/ Hi(y) <= Lo(x))

\* The bytes a source of n characters needs in a chunk of its own.
NeededBytes(n) == ((n + 1) * SizeofWchar) + SizeofChunkHeader

\* C18: when a call makes a chunk and the bytes needed are at least
\* kMinChunkSizeInBytes, the chunk has exactly length + 1 slots and the call
\* leaves the cursor at the limit; when they are fewer, the chunk has
\* (kMinChunkSizeInBytes - sizeof(ChunkHeader)) / sizeof(wchar_t) slots and
\* the rest stays free.  From a full chunk every successful call, whatever
\* its length, makes another chunk; a call that fits in the free slots
\* carves them.
C18_DedicatedChunkFull ==
    [][AllocStep =>
          LET n == last'.len
              slots == Len(heap'[nextBlk].Chars)
              free == (m_pLimit'.off - m_pNext'.off) \div SizeofWchar
          IN  /\ (last'.outcome = "ok" /\ last'.mallocs = 1) =>
                    /\ NeededBytes(n) >= kMinChunkSizeInBytes
                          => /\ slots = n + 1
                             /\ free = 0
                             /\ m_pNext' = m_pLimit'
                    /\ NeededBytes(n) < kMinChunkSizeInBytes
                          => /\ slots = (kMinChunkSizeInBytes - SizeofChunkHeader)
                                           \div SizeofWchar
                             /\ free = slots - (n + 1)
                             /\ free >= 1
              /\ (m_pNext = m_pLimit /\ last'.outcome = "ok") =>
                    /\ last'.mallocs = 1
                    /\ Len(m_chunks') = Len(m_chunks) + 1
              /\ n + 1 <= FreeSlots =>
                    /\ last'.outcome = "ok"
                    /\ last'.mallocs = 0
                    /\ m_chunks' = m_chunks]_vars

\* A chunk larger than the minimum was made for one source and is full.
C18_Witness ==
    /\ last.op = "AllocString"
    /\ last.outcome = "ok"
    /\ last.mallocs = 1
    /\ NeededBytes(last.len) > kMinChunkSizeInBytes
    /\ Len(m_chunks) = 2
    /\ Len(heap[m_chunks[2]].Chars) = last.len + 1
    /\ m_pNext = m_pLimit

\* The handles of length 0 at hand: among the caller's String variables
\* (default-constructed, moved-from, or copies of a handle for the empty
\* source, dangling or not) and among the handles returned.
EmptyHandles ==
    {strs[v] : v \in {w \in StrVars : IsEmpty(strs[w])}}
        \cup {returned[k].str : k \in {l \in 1..Len(returned) : IsEmpty(returned[l].str)}}

\* A heap with every block freed.
NoHeap == [b \in {} |-> FreshBlock(0)]

\* The step before read one of the caller's String variables; a read leaves
\* the variables as they are.
ReadOfEmpty ==
    \/ last.op = "ToStdString" /\ IsEmpty(strs[last.src])
    \/ last.op = "Compare" /\ IsEmpty(strs[last.src]) /\ IsEmpty(strs[last.dst])

\* C16: for every handle of length 0, Str() points at the handle's own
\* m_nul, which holds NUL, so the view is terminated and of length zero, and
\* ToStdString() is empty; neither reads the allocator's memory: both give
\* the same with every block freed and make no undefined read.  A call of
\* ToStdString on such a handle, or of Compare on two of them, ends normally
\* with the empty string, or 0, whatever the build does with reads of freed
\* memory.
C16_EmptyHandleView ==
    /\ \A h \in EmptyHandles :
          /\ Str(h).at = "m_nul"
          /\ \A hp \in {heap, NoHeap} :
                /\ StrAt(h, hp, 0, Segv) = Ok(NUL)
                /\ WStringOf(h, hp, Length(h), Segv) = Ok(<<>>)
                /\ ToStdString(h, hp, Segv) = Ok(<<>>)
    /\ ReadOfEmpty => (last.outcome = "ok" /\ last.text = <<>> /\ last.cmp = 0)

\* After the destructor, ToStdString was called on a String variable that
\* is a copy of a handle for the empty source, its pointer dangling; the
\* other variable holds a null pointer.
C16_Witness ==
    /\ ~alive
    /\ last.op = "ToStdString"
    /\ last.src = 1
    /\ strs[1].m_length = 0
    /\ strs[1].m_ptr # Null
    /\ strs[1].m_ptr.blk \notin DOMAIN heap
    /\ strs[2] = EmptyString

====
